---- MODULE Spec2Model ----
(***************************************************************************)
(* Resource queries of bevy_ecs (crates/bevy_ecs/src/resource/             *)
(* resource_query.rs): the handle kinds Res<T>, ResMut<T>, Local<T>, their *)
(* FetchResource implementations, and the tuple composition generated by   *)
(* tuple_impl!.  The Resources store and TypeAccess are collaborators      *)
(* whose code is outside the file; they are modelled from their contract.  *)
(***************************************************************************)
EXTENDS Integers, Sequences, FiniteSets, TLC

\* ---------------------------------------------------------------- bounds

NumSystems == 2
MaxArity == 2
MaxValue == 1
MaxBuilt == 3

\* ---------------------------------------------------------------- universe

Types == {"A", "B"}
Kinds == {"Res", "ResMut", "Local"}
Systems == 1..NumSystems
\* The systems of the reader/writer scenario: one more than Systems.
AllSystems == 1..(NumSystems + 1)
Values == 0..MaxValue

\* Option<SystemId>
None == -1
SystemIds == AllSystems \cup {None}

\* ResourceIndex
Global == 0
System(id) == id
Indices == {Global} \cup AllSystems
NoSlot == -2

\* One element of a tuple query: a handle kind over a resource type.
Elements == [kind : Kinds, ty : Types]

\* The tuples tuple_impl! generates, up to MaxArity elements; <<>> is ().
Queries == UNION {[1..n -> Elements] : n \in 0..MaxArity}

VARIABLES
    reads,      \* store: read count per resource type
    writes,     \* store: exclusive flag per resource type
    slots,      \* store: value at (index, type), NoSlot when not registered
    pc,         \* per system: "idle", "borrow", "get", "use", "release",
                \*             "released", "failed"
    plan,       \* per system: the access() descriptor the scheduler asked for
    query,      \* per system: the tuple query it runs
    held,       \* per system: element borrows taken and not yet released
    handles,    \* per system: the Item returned by get()
    dups,       \* per system: the Item unsafe_clone() made of it, <<>> if none
    failure,    \* per system: why it failed
    lastWrite,  \* per type: last value written through a ResMut handle
    built,      \* how many times from_resources was called, up to MaxBuilt
    setup       \* "ok", or "panicked" once an initialize() call panicked

vars == <<reads, writes, slots, pc, plan, query, held, handles, dups, failure,
          lastWrite, built, setup>>

\* ---------------------------------------------------------------- store
\* Borrow state of the Resources store, as a value.

Lock == [reads |-> reads, writes |-> writes]

\* resources.borrow::<T>()
Resources_borrow(L, T) ==
    IF ~L.writes[T]
    THEN [ok |-> TRUE, lock |-> [L EXCEPT !.reads[T] = @ + 1]]
    ELSE [ok |-> FALSE, lock |-> L]

\* resources.borrow_mut::<T>()
Resources_borrow_mut(L, T) ==
    IF L.reads[T] = 0 /\ ~L.writes[T]
    THEN [ok |-> TRUE, lock |-> [L EXCEPT !.writes[T] = TRUE]]
    ELSE [ok |-> FALSE, lock |-> L]

\* resources.release::<T>()
Resources_release(L, T) == [L EXCEPT !.reads[T] = @ - 1]

\* resources.release_mut::<T>()
Resources_release_mut(L, T) == [L EXCEPT !.writes[T] = FALSE]

\* ---------------------------------------------------------------- fetches

FetchResourceRead_borrow_mut(L, T) == Resources_borrow_mut(L, T)
FetchResourceRead_borrow(L, T) == Resources_borrow(L, T)
FetchResourceRead_release_skipped(L, T) == L
FetchResourceRead_release(L, T) == Resources_release(L, T)

FetchResourceWrite_borrow_shared(L, T) == Resources_borrow(L, T)
FetchResourceWrite_borrow(L, T) == Resources_borrow_mut(L, T)

FetchResourceWrite_release_shared(L, T) == Resources_release(L, T)
FetchResourceWrite_release(L, T) == Resources_release_mut(L, T)

FetchResourceLocalMut_borrow_skipped(L, T) == [ok |-> TRUE, lock |-> L]
FetchResourceLocalMut_borrow_shared(L, T) == Resources_borrow(L, T)
FetchResourceLocalMut_borrow(L, T) == Resources_borrow_mut(L, T)
FetchResourceLocalMut_release_shared(L, T) == Resources_release(L, T)
FetchResourceLocalMut_release(L, T) == Resources_release_mut(L, T)

\* $name::borrow(resources) for one element of a tuple
Fetch_borrow(L, e) ==
    CASE e.kind = "Res" -> FetchResourceRead_borrow(L, e.ty)
      [] e.kind = "ResMut" -> FetchResourceWrite_borrow(L, e.ty)
      [] e.kind = "Local" -> FetchResourceLocalMut_borrow(L, e.ty)

\* $name::release(resources) for one element of a tuple
Fetch_release(L, e) ==
    CASE e.kind = "Res" -> FetchResourceRead_release(L, e.ty)
      [] e.kind = "ResMut" -> FetchResourceWrite_release(L, e.ty)
      [] e.kind = "Local" -> FetchResourceLocalMut_release(L, e.ty)

\* The element whose borrow the tuple requests after n of them succeeded.
BorrowNext_reversed(q, n) == q[Len(q) - n]
BorrowNext(q, n) == q[n + 1]

\* The element whose release the tuple requests when n of them remain.
ReleaseNext(q, n) == q[Len(q) - n + 1]

\* held with its first occurrence of e removed
RECURSIVE Without(_, _)
Without(h, e) ==
    IF h = <<>> THEN <<>>
    ELSE IF Head(h) = e THEN Tail(h)
    ELSE <<Head(h)>> \o Without(Tail(h), e)

\* ---------------------------------------------------------------- access

TypeAccess_default == [immutable |-> {}, mutable |-> {}]

\* access.union(&other)
TypeAccess_union(a, b) ==
    [immutable |-> a.immutable \cup b.immutable,
     mutable |-> a.mutable \cup b.mutable]

FetchResourceRead_access(T) ==
    [TypeAccess_default EXCEPT !.immutable = @ \cup {T}]

FetchResourceWrite_access(T) ==
    [TypeAccess_default EXCEPT !.mutable = @ \cup {T}]

FetchResourceLocalMut_access_read(T) ==
    [TypeAccess_default EXCEPT !.immutable = @ \cup {T}]
FetchResourceLocalMut_access(T) ==
    [TypeAccess_default EXCEPT !.mutable = @ \cup {T}]

\* $name::access() for one element of a tuple
Fetch_access(e) ==
    CASE e.kind = "Res" -> FetchResourceRead_access(e.ty)
      [] e.kind = "ResMut" -> FetchResourceWrite_access(e.ty)
      [] e.kind = "Local" -> FetchResourceLocalMut_access(e.ty)

\* access() of a tuple: the default descriptor, united with each element's
RECURSIVE access_from(_, _)
access_from(access, q) ==
    IF q = <<>> THEN access
    ELSE access_from(TypeAccess_union(access, Fetch_access(Head(q))), Tail(q))

tuple_access(q) == access_from(TypeAccess_default, q)

\* borrow() of a tuple, run to its end: the element borrows in order, ending
\* at the first one that panics.
RECURSIVE tuple_borrow(_, _)
tuple_borrow(L, q) ==
    IF q = <<>> THEN [ok |-> TRUE, lock |-> L]
    ELSE LET r == Fetch_borrow(L, Head(q))
         IN  IF r.ok THEN tuple_borrow(r.lock, Tail(q)) ELSE r

\* release() of a tuple, run to its end.
RECURSIVE tuple_release(_, _)
tuple_release(L, q) ==
    IF q = <<>> THEN L
    ELSE tuple_release(Fetch_release(L, Head(q)), Tail(q))

\* resources.get_unsafe_ref::<T>(index): the slot, if one is registered
Resources_get_unsafe_ref(S, index, T) ==
    IF S[index, T] # NoSlot
    THEN [ok |-> TRUE, index |-> index, ty |-> T]
    ELSE [ok |-> FALSE, index |-> index, ty |-> T]

Failed(err) == [ok |-> FALSE, handle |-> <<>>, err |-> err]
Handle(kind, ref) ==
    [ok |-> TRUE, handle |-> [kind |-> kind, index |-> ref.index, ty |-> ref.ty],
     err |-> "none"]

FetchResourceRead_get_own(S, sid, T) ==
    LET ref == Resources_get_unsafe_ref(S, IF sid = None THEN Global ELSE System(sid), T)
    IN  IF ref.ok THEN Handle("Res", ref) ELSE Failed("missing resource")
FetchResourceRead_get(S, sid, T) ==
    LET ref == Resources_get_unsafe_ref(S, Global, T)
    IN  IF ref.ok THEN Handle("Res", ref) ELSE Failed("missing resource")

FetchResourceWrite_get_own(S, sid, T) ==
    IF sid = None THEN Failed("no system id")
    ELSE LET ref == Resources_get_unsafe_ref(S, System(sid), T)
         IN  IF ref.ok THEN Handle("ResMut", ref) ELSE Failed("missing resource")
FetchResourceWrite_get(S, sid, T) ==
    LET ref == Resources_get_unsafe_ref(S, Global, T)
    IN  IF ref.ok THEN Handle("ResMut", ref) ELSE Failed("missing resource")

FetchResourceLocalMut_get_global(S, sid, T) ==
    IF sid = None THEN Failed("no system id")
    ELSE LET ref == Resources_get_unsafe_ref(S, Global, T)
         IN  IF ref.ok THEN Handle("Local", ref) ELSE Failed("missing resource")
FetchResourceLocalMut_get(S, sid, T) ==
    IF sid = None THEN Failed("no system id")
    ELSE LET ref == Resources_get_unsafe_ref(S, System(sid), T)
         IN  IF ref.ok THEN Handle("Local", ref) ELSE Failed("missing resource")

\* $name::get(resources, system_id) for one element of a tuple
Fetch_get(S, sid, e) ==
    CASE e.kind = "Res" -> FetchResourceRead_get(S, sid, e.ty)
      [] e.kind = "ResMut" -> FetchResourceWrite_get(S, sid, e.ty)
      [] e.kind = "Local" -> FetchResourceLocalMut_get(S, sid, e.ty)

\* Deref::deref of a handle: the value of the slot it addresses
Deref(S, h) == S[h.index, h.ty]

\* DerefMut::deref_mut of a ResMut or Local handle, then an assignment
DerefMutStore(S, h, v) == [S EXCEPT ![h.index, h.ty] = v]

\* get() of a tuple: the elements' handles, positionally; the first element
\* whose get() panics ends the call.
RECURSIVE tuple_get(_, _, _)
tuple_get(S, sid, q) ==
    IF q = <<>> THEN [ok |-> TRUE, item |-> <<>>, err |-> "none"]
    ELSE LET h == Fetch_get(S, sid, Head(q))
         IN  IF ~h.ok THEN [ok |-> FALSE, item |-> <<>>, err |-> h.err]
             ELSE LET rest == tuple_get(S, sid, Tail(q))
                  IN  IF rest.ok
                      THEN [ok |-> TRUE, item |-> <<h.handle>> \o rest.item,
                            err |-> "none"]
                      ELSE rest

\* ---------------------------------------------------------------- unsafe_clone

\* UnsafeClone for Res: Self { value: self.value }
Res_unsafe_clone(h) == [kind |-> "Res", index |-> h.index, ty |-> h.ty]

\* UnsafeClone for ResMut
ResMut_unsafe_clone(h) == [kind |-> "ResMut", index |-> h.index, ty |-> h.ty]

\* UnsafeClone for Local
Local_unsafe_clone_global(h) == [kind |-> "Local", index |-> Global, ty |-> h.ty]
Local_unsafe_clone(h) == [kind |-> "Local", index |-> h.index, ty |-> h.ty]

\* $name.unsafe_clone() for one element of a tuple Item
Item_unsafe_clone(h) ==
    CASE h.kind = "Res" -> Res_unsafe_clone(h)
      [] h.kind = "ResMut" -> ResMut_unsafe_clone(h)
      [] h.kind = "Local" -> Local_unsafe_clone(h)

\* unsafe_clone() of a tuple Item: the elements' clones, positionally
RECURSIVE tuple_unsafe_clone(_)
tuple_unsafe_clone(item) ==
    IF item = <<>> THEN <<>>
    ELSE <<Item_unsafe_clone(Head(item))>> \o tuple_unsafe_clone(Tail(item))

\* ---------------------------------------------------------------- initialize

\* resources.insert_local(id, value): creates the slot; the first writer wins
Resources_insert_local(S, id, T, value) ==
    IF S[System(id), T] = NoSlot THEN [S EXCEPT ![System(id), T] = value] ELSE S

\* resources.insert(value): registers the global resource of a type
Resources_insert(S, T, value) == [S EXCEPT ![Global, T] = value]

\* ResourceQuery::initialize, the default method of Res and ResMut: nothing
ResourceQuery_initialize(S, id) == [ok |-> TRUE, slots |-> S, built |-> 0]

Local_initialize_unchecked(S, id, T, v) ==
    IF id = None
    THEN [ok |-> TRUE, slots |-> S, built |-> 1]
    ELSE [ok |-> TRUE, slots |-> Resources_insert_local(S, id, T, v), built |-> 1]
Local_initialize_overwrite(S, id, T, v) ==
    IF id = None
    THEN [ok |-> FALSE, slots |-> S, built |-> 1]
    ELSE [ok |-> TRUE, slots |-> [S EXCEPT ![System(id), T] = v], built |-> 1]
\* ResourceQuery::initialize of Local<T>; v is what T::from_resources returns
Local_initialize(S, id, T, v) ==
    LET value == v
    IN  IF id = None
        THEN [ok |-> FALSE, slots |-> S, built |-> 1]
        ELSE [ok |-> TRUE, slots |-> Resources_insert_local(S, id, T, value),
              built |-> 1]

\* $name::initialize(resources, system_id) for one element of a tuple
Query_initialize(S, id, e, v) ==
    CASE e.kind = "Res" -> ResourceQuery_initialize(S, id)
      [] e.kind = "ResMut" -> ResourceQuery_initialize(S, id)
      [] e.kind = "Local" -> Local_initialize(S, id, e.ty, v)

\* initialize() of a tuple: forwards to each element in order; vs[i] is what
\* from_resources returns for element i; the first panic ends the call.
RECURSIVE initialize_from(_, _, _, _)
initialize_from(S, id, q, vs) ==
    IF q = <<>> THEN [ok |-> TRUE, slots |-> S, built |-> 0]
    ELSE LET r == Query_initialize(S, id, Head(q), Head(vs))
         IN  IF ~r.ok THEN r
             ELSE LET rest == initialize_from(r.slots, id, Tail(q), Tail(vs))
                  IN  [ok |-> rest.ok, slots |-> rest.slots,
                       built |-> r.built + rest.built]

tuple_initialize_checked(S, id, q, vs) ==
    IF id = None THEN [ok |-> FALSE, slots |-> S, built |-> 0]
    ELSE initialize_from(S, id, q, vs)
tuple_initialize(S, id, q, vs) == initialize_from(S, id, q, vs)

\* System s is between the return of a successful borrow() and its release().
InWindow(s) == pc[s] \in {"get", "use"}

\* System s is executing a run: from its borrow() call to the return of release().
Running(s) == pc[s] \in {"borrow", "get", "use", "release"}

\* ---------------------------------------------------------------- actions

Init ==
    /\ reads = [T \in Types |-> 0]
    /\ writes = [T \in Types |-> FALSE]
    /\ slots = [i \in Indices, T \in Types |-> 0]
    /\ pc = [s \in AllSystems |-> "idle"]
    /\ plan = [s \in AllSystems |-> TypeAccess_default]
    /\ query = [s \in AllSystems |-> <<>>]
    /\ held = [s \in AllSystems |-> <<>>]
    /\ handles = [s \in AllSystems |-> <<>>]
    /\ dups = [s \in AllSystems |-> <<>>]
    /\ failure = [s \in AllSystems |-> "none"]
    /\ lastWrite = [T \in Types |-> 0]
    /\ built = 0
    /\ setup = "ok"

\* The scheduler asks the query of a system for its access() and starts a run
\* of the system, which is then about to call borrow().
StartRun(s, q) ==
    /\ setup = "ok"
    /\ pc[s] \in {"idle", "released"}
    /\ pc' = [pc EXCEPT ![s] = "borrow"]
    /\ plan' = [plan EXCEPT ![s] = tuple_access(q)]
    /\ query' = [query EXCEPT ![s] = q]
    /\ UNCHANGED <<reads, writes, slots, held, handles, dups, failure, lastWrite, built, setup>>

BorrowStep_rollback(s) ==
    /\ setup = "ok"
    /\ pc[s] = "borrow"
    /\ Len(held[s]) < Len(query[s])
    /\ LET e == query[s][Len(held[s]) + 1]
           r == Fetch_borrow(Lock, e)
           back == tuple_release(Lock, held[s])
       IN  IF r.ok
           THEN /\ reads' = r.lock.reads
                /\ writes' = r.lock.writes
                /\ held' = [held EXCEPT ![s] = Append(@, e)]
                /\ UNCHANGED <<pc, failure>>
           ELSE /\ reads' = back.reads
                /\ writes' = back.writes
                /\ held' = [held EXCEPT ![s] = <<>>]
                /\ pc' = [pc EXCEPT ![s] = "failed"]
                /\ failure' = [failure EXCEPT ![s] = "borrow"]
    /\ UNCHANGED <<slots, plan, query, handles, dups, lastWrite, built, setup>>
BorrowStep_waiting(s) ==
    /\ setup = "ok"
    /\ pc[s] = "borrow"
    /\ Len(held[s]) < Len(query[s])
    /\ LET e == query[s][Len(held[s]) + 1]
           r == Fetch_borrow(Lock, e)
       IN  /\ r.ok
           /\ reads' = r.lock.reads
           /\ writes' = r.lock.writes
           /\ held' = [held EXCEPT ![s] = Append(@, e)]
    /\ UNCHANGED <<slots, pc, plan, query, handles, dups, failure, lastWrite, built, setup>>
\* One element borrow of the tuple's borrow(); a refused borrow panics.
BorrowStep(s) ==
    /\ setup = "ok"
    /\ pc[s] = "borrow"
    /\ Len(held[s]) < Len(query[s])
    /\ LET e == BorrowNext(query[s], Len(held[s]))
           r == Fetch_borrow(Lock, e)
       IN  /\ reads' = r.lock.reads
           /\ writes' = r.lock.writes
           /\ IF r.ok
              THEN /\ held' = [held EXCEPT ![s] = Append(@, e)]
                   /\ UNCHANGED <<pc, failure>>
              ELSE /\ pc' = [pc EXCEPT ![s] = "failed"]
                   /\ failure' = [failure EXCEPT ![s] = "borrow"]
                   /\ UNCHANGED held
    /\ UNCHANGED <<slots, plan, query, handles, dups, lastWrite, built, setup>>

\* The tuple's borrow() returns: every element borrow succeeded.
BorrowReturn(s) ==
    /\ setup = "ok"
    /\ pc[s] = "borrow"
    /\ Len(held[s]) = Len(query[s])
    /\ pc' = [pc EXCEPT ![s] = "get"]
    /\ UNCHANGED <<reads, writes, slots, plan, query, held, handles, dups, failure,
                 lastWrite, built, setup>>

\* get() of the tuple, called with the system id the scheduler supplies.
Get(s, sid) ==
    /\ setup = "ok"
    /\ pc[s] = "get"
    /\ LET r == tuple_get(slots, sid, query[s])
       IN  IF r.ok
           THEN /\ pc' = [pc EXCEPT ![s] = "use"]
                /\ handles' = [handles EXCEPT ![s] = r.item]
                /\ UNCHANGED failure
           ELSE /\ pc' = [pc EXCEPT ![s] = "failed"]
                /\ failure' = [failure EXCEPT ![s] = r.err]
                /\ UNCHANGED handles
    /\ UNCHANGED <<reads, writes, slots, plan, query, held, dups, lastWrite, built, setup>>

\* The system assigns v through the i-th handle of its Item.
Write(s, i, v) ==
    /\ setup = "ok"
    /\ pc[s] = "use"
    /\ i \in 1..Len(handles[s])
    /\ handles[s][i].kind \in {"ResMut", "Local"}
    /\ slots' = DerefMutStore(slots, handles[s][i], v)
    /\ lastWrite' = IF query[s][i].kind = "ResMut"
                    THEN [lastWrite EXCEPT ![query[s][i].ty] = v]
                    ELSE lastWrite
    /\ UNCHANGED <<reads, writes, pc, plan, query, held, handles, dups, failure, built, setup>>

\* The Item of system s is duplicated with unsafe_clone().
Clone(s) ==
    /\ setup = "ok"
    /\ pc[s] = "use"
    /\ dups' = [dups EXCEPT ![s] = tuple_unsafe_clone(handles[s])]
    /\ UNCHANGED <<reads, writes, slots, pc, plan, query, held, handles, failure,
                   lastWrite, built, setup>>

\* One element release of the tuple's release(); the handles and their
\* duplicates were dropped before release() was called.
ReleaseStep(s) ==
    /\ setup = "ok"
    /\ pc[s] \in {"use", "release"}
    /\ held[s] # <<>>
    /\ LET e == ReleaseNext(query[s], Len(held[s]))
           L == Fetch_release(Lock, e)
       IN  /\ reads' = L.reads
           /\ writes' = L.writes
           /\ held' = [held EXCEPT ![s] = Without(@, e)]
    /\ pc' = [pc EXCEPT ![s] = "release"]
    /\ handles' = [handles EXCEPT ![s] = <<>>]
    /\ dups' = [dups EXCEPT ![s] = <<>>]
    /\ UNCHANGED <<slots, plan, query, failure, lastWrite, built, setup>>

\* The tuple's release() returns; the handles of the run are gone.
ReleaseReturn(s) ==
    /\ setup = "ok"
    /\ pc[s] \in {"use", "release"}
    /\ held[s] = <<>>
    /\ pc' = [pc EXCEPT ![s] = "released"]
    /\ handles' = [handles EXCEPT ![s] = <<>>]
    /\ dups' = [dups EXCEPT ![s] = <<>>]
    /\ UNCHANGED <<reads, writes, slots, plan, query, held, failure, lastWrite, built, setup>>

Next ==
    \E s \in Systems :
        \/ \E q \in Queries : StartRun(s, q)
        \/ BorrowStep(s)
        \/ BorrowReturn(s)
        \/ \E sid \in {s, None} : Get(s, sid)
        \/ Clone(s)
        \/ ReleaseStep(s)
        \/ ReleaseReturn(s)

Spec == Init /\ [][Next]_vars

\* The calls the thread of system s makes during a run.
SystemStep(s) ==
    \/ BorrowStep(s)
    \/ BorrowReturn(s)
    \/ \E sid \in {s, None} : Get(s, sid)
    \/ Clone(s)
    \/ ReleaseStep(s)
    \/ ReleaseReturn(s)

\* Every worker thread keeps executing: a system that can make its next call
\* makes it, and the body of a system returns.
SpecLive == Init /\ [][Next]_vars /\ \A s \in Systems : WF_vars(SystemStep(s))

\* The store as Resources::default() leaves it: nothing registered.
InitSetup ==
    /\ reads = [T \in Types |-> 0]
    /\ writes = [T \in Types |-> FALSE]
    /\ slots = [i \in Indices, T \in Types |-> NoSlot]
    /\ pc = [s \in AllSystems |-> "idle"]
    /\ plan = [s \in AllSystems |-> TypeAccess_default]
    /\ query = [s \in AllSystems |-> <<>>]
    /\ held = [s \in AllSystems |-> <<>>]
    /\ handles = [s \in AllSystems |-> <<>>]
    /\ dups = [s \in AllSystems |-> <<>>]
    /\ failure = [s \in AllSystems |-> "none"]
    /\ lastWrite = [T \in Types |-> 0]
    /\ built = 0
    /\ setup = "ok"

\* The application registers the global resource of type T.
Insert(T, v) ==
    /\ setup = "ok"
    /\ \A s \in AllSystems : ~Running(s)
    /\ slots[Global, T] = NoSlot
    /\ slots' = Resources_insert(slots, T, v)
    /\ lastWrite' = [lastWrite EXCEPT ![T] = v]
    /\ UNCHANGED <<reads, writes, pc, plan, query, held, handles, dups, failure, built, setup>>

\* System s is registered with the tuple q: initialize() of q is called with
\* the system id before the first run, and may be called again for the same
\* system between its runs; it needs the store exclusively (&mut Resources).
\* vs are the values from_resources returns; built counts its calls.
Initialize(s, q, sid, vs) ==
    /\ setup = "ok"
    /\ \A t \in AllSystems : ~Running(t)
    /\ pc[s] \in {"idle", "released"}
    /\ query[s] \in {<<>>, q}
    /\ LET r == tuple_initialize(slots, sid, q, vs)
       IN  /\ built + r.built <= MaxBuilt
           /\ slots' = r.slots
           /\ built' = built + r.built
           /\ setup' = IF r.ok THEN "ok" ELSE "panicked"
    /\ query' = [query EXCEPT ![s] = q]
    /\ UNCHANGED <<reads, writes, pc, plan, held, handles, dups, failure, lastWrite>>

\* The single-threaded executor runs a registered system while none runs.
RunRegistered(s) ==
    /\ \A t \in AllSystems : ~Running(t)
    /\ StartRun(s, query[s])

\* The queries of the systems that are registered: the tuples over type A.
SetupQueries == {q \in Queries : \A i \in 1..Len(q) : q[i].ty = "A"}

\* Setup and a single-threaded executor: registration and initialize() run
\* while no system runs, and the registered systems run one at a time.
NextSetup ==
    \/ \E v \in Values : Insert("A", v)
    \/ \E s \in Systems :
           \/ \E q \in SetupQueries : \E sid \in {s, None} :
                  \E vs \in [1..Len(q) -> Values] : Initialize(s, q, sid, vs)
           \/ RunRegistered(s)
           \/ BorrowStep(s)
           \/ BorrowReturn(s)
           \/ \E sid \in {s, None} : Get(s, sid)
           \/ \E i \in 1..MaxArity : \E v \in Values : Write(s, i, v)
           \/ Clone(s)
           \/ ReleaseStep(s)
           \/ ReleaseReturn(s)

SpecSetup == InitSetup /\ [][NextSetup]_vars

\* The reader/writer scenario: every system runs Res<A> or ResMut<A>, A being
\* the counter resource, and writes through the exclusive handle.
CounterQueries ==
    {<<[kind |-> k, ty |-> "A"]>> : k \in {"Res", "ResMut"}}

NextCounter ==
    \E s \in AllSystems :
        \/ \E q \in CounterQueries : StartRun(s, q)
        \/ BorrowStep(s)
        \/ BorrowReturn(s)
        \/ \E sid \in {s, None} : Get(s, sid)
        \/ \E i \in 1..MaxArity : \E v \in Values : Write(s, i, v)
        \/ ReleaseStep(s)
        \/ ReleaseReturn(s)

SpecCounter == Init /\ [][NextCounter]_vars

\* ---------------------------------------------------------------- properties

IsWrite(e) == e.kind \in {"ResMut", "Local"}

\* How many element borrows of system s on type T are recorded, shared or
\* exclusive; the borrows a failed call took before it panicked stay recorded.
SharedHeld(s, T) ==
    Cardinality({i \in 1..Len(held[s]) : held[s][i].ty = T /\ ~IsWrite(held[s][i])})
ExclusiveHeld(s, T) ==
    Cardinality({i \in 1..Len(held[s]) : held[s][i].ty = T /\ IsWrite(held[s][i])})

SharedOutstanding(T) == \E s \in AllSystems : SharedHeld(s, T) > 0
ExclusiveOutstanding(T) == \E s \in AllSystems : ExclusiveHeld(s, T) > 0

\* The conflict rule of access descriptors.
Conflicts(a, b) ==
    \/ a.mutable \cap (b.mutable \cup b.immutable) # {}
    \/ b.mutable \cap (a.mutable \cup a.immutable) # {}

\* Two element borrows that cannot coexist.
ElemConflict(e, g) == e.ty = g.ty /\ (IsWrite(e) \/ IsWrite(g))

\* This step is an element borrow of system s, granted or refused.
BorrowAttempt(s) ==
    /\ pc[s] = "borrow"
    /\ Len(held[s]) < Len(query[s])
    /\ (held'[s] # held[s] \/ pc'[s] = "failed")
Attempted(s) == query[s][Len(held[s]) + 1]
Granted(s) == pc'[s] = "borrow"

\* C1: for every resource type, the exclusive flag and the read count are
\* never both non-zero.
C1_FlagAndCountExclusive ==
    \A T \in Types : ~(writes[T] /\ reads[T] # 0)

\* A borrow was refused while one type is read and another is written.
C1_Witness ==
    \E T, U \in Types :
        /\ reads[T] > 0 /\ writes[U]
        /\ \E s \in Systems : pc[s] = "failed" /\ failure[s] = "borrow"
        /\ \E s \in Systems : InWindow(s)

\* C2: a shared borrow of T is granted, and adds one to T's read count, exactly
\* when no exclusive borrow of T is outstanding; an exclusive borrow of T by
\* ResMut<T> is granted, and sets T's flag, exactly when T's read count is zero
\* and T's flag is clear; a refused borrow changes neither.
C2_Admission ==
    [][\A s \in Systems : BorrowAttempt(s) =>
          LET e == Attempted(s)
              T == e.ty
          IN  /\ e.kind = "Res" =>
                    /\ Granted(s) <=> ~ExclusiveOutstanding(T)
                    /\ Granted(s) <=> ~writes[T]
                    /\ Granted(s) => /\ reads' = [reads EXCEPT ![T] = @ + 1]
                                     /\ writes' = writes
              /\ e.kind = "ResMut" =>
                    /\ Granted(s) <=> (reads[T] = 0 /\ ~writes[T])
                    /\ Granted(s) <=>
                          (~SharedOutstanding(T) /\ ~ExclusiveOutstanding(T))
                    /\ Granted(s) => /\ writes' = [writes EXCEPT ![T] = TRUE]
                                     /\ reads' = reads
              /\ ~Granted(s) => reads' = reads /\ writes' = writes
      ]_vars

\* Every system holds a shared borrow of one type at the same time.
C2_Witness ==
    \E T \in Types :
        /\ \A s \in Systems : InWindow(s) /\ SharedHeld(s, T) > 0
        /\ reads[T] >= 2

\* C3: two systems are never at once inside the borrow windows of queries
\* whose access descriptors conflict, and a handle with write access to a type
\* is never held while another system holds a handle to that type.
C3_NoConflictingWindows ==
    \A s, t \in Systems : s # t =>
        /\ (InWindow(s) /\ InWindow(t)) =>
              ~Conflicts(tuple_access(query[s]), tuple_access(query[t]))
        /\ \A i \in 1..Len(handles[s]) : \A j \in 1..Len(handles[t]) :
              handles[s][i].ty = handles[t][j].ty =>
                  handles[s][i].kind = "Res" /\ handles[t][j].kind = "Res"

\* Both systems hold handles at once, one of them with write access.
C3_Witness ==
    \E s, t \in Systems :
        /\ s # t /\ pc[s] = "use" /\ pc[t] = "use"
        /\ \E i \in 1..Len(handles[s]) : handles[s][i].kind # "Res"
        /\ \E i \in 1..Len(handles[s]) : \E j \in 1..Len(handles[t]) :
              handles[s][i].ty = handles[t][j].ty

\* This step is a refused element borrow of system s.
BorrowRefused(s) == BorrowAttempt(s) /\ ~Granted(s)

\* C4 as stated: a borrow is refused only while another system is executing a
\* query whose access descriptor conflicts with that of the refused one.
C4_Original ==
    [][\A s \in Systems : BorrowRefused(s) =>
          \E t \in Systems :
              /\ t # s /\ Running(t)
              /\ Conflicts(tuple_access(query[s]), tuple_access(query[t]))
      ]_vars

\* C4, amended: an element borrow is refused only when a conflicting borrow of
\* its type is recorded in the store: taken by another system that is
\* executing a query with a conflicting access descriptor, taken by an
\* earlier element of the same tuple, or left behind by a call that failed.
C4_RefusedOnlyOnConflict ==
    [][\A s \in Systems : BorrowRefused(s) =>
          LET e == Attempted(s)
              Holds(t) == \E i \in 1..Len(held[t]) : ElemConflict(e, held[t][i])
          IN  \/ \E t \in Systems :
                    /\ t # s /\ Running(t) /\ Holds(t)
                    /\ Conflicts(tuple_access(query[s]), tuple_access(query[t]))
              \/ Holds(s)
              \/ \E t \in Systems : t # s /\ pc[t] = "failed" /\ Holds(t)
      ]_vars

\* A tuple naming one type twice was refused while nothing else was running.
C4_Witness ==
    \E s \in Systems :
        /\ pc[s] = "failed" /\ failure[s] = "borrow"
        /\ Len(held[s]) = 1
        /\ ElemConflict(held[s][1], query[s][2])
        /\ \A t \in Systems : t # s => pc[t] = "idle"

\* C5: in every store state and for every fetch whose borrow() succeeds there,
\* borrow() followed by release() of the same fetch leaves every read count
\* and every exclusive flag as it was before the borrow.
C5_BorrowReleaseRoundTrip ==
    \A q \in Queries :
        LET b == tuple_borrow(Lock, q)
        IN  b.ok => tuple_release(b.lock, q) = Lock

\* While another system holds borrows, a two-element tuple of a shared and an
\* exclusive borrow can be borrowed, which changes the store, and a system
\* has run such a tuple through release().
C5_Witness ==
    /\ \E T \in Types : reads[T] > 0
    /\ \E s \in Systems :
          /\ pc[s] = "released" /\ Len(query[s]) = 2
          /\ query[s][1].kind = "Res" /\ IsWrite(query[s][2])
          /\ tuple_borrow(Lock, query[s]).ok
          /\ tuple_borrow(Lock, query[s]).lock # Lock

Quiescent == \A s \in AllSystems : ~Running(s)

\* C6 as stated: once no system is between a borrow() call and the return of
\* its release(), every read count is zero and every flag is clear, also
\* after a borrow() that failed.
C6_Original ==
    Quiescent => \A T \in Types : reads[T] = 0 /\ ~writes[T]

\* The element borrows that failed calls took and never released.
RECURSIVE LeakedSharedUpTo(_, _)
LeakedSharedUpTo(T, n) ==
    IF n = 0 THEN 0
    ELSE (IF pc[n] = "failed" THEN SharedHeld(n, T) ELSE 0)
         + LeakedSharedUpTo(T, n - 1)
LeakedShared(T) == LeakedSharedUpTo(T, NumSystems + 1)
LeakedExclusive(T) ==
    \E s \in AllSystems : pc[s] = "failed" /\ ExclusiveHeld(s, T) > 0

\* C6, amended: once every release() matching a successful borrow() has
\* executed, the read count of every type is the number of shared element
\* borrows that failed calls left behind and its flag is set exactly when a
\* failed call left an exclusive element borrow behind; with no failed call
\* every count is zero and every flag is clear.
C6_CountersReturn ==
    Quiescent =>
        \A T \in Types :
            /\ reads[T] = LeakedShared(T)
            /\ writes[T] <=> LeakedExclusive(T)
            /\ (\A s \in AllSystems : pc[s] # "failed") =>
                  reads[T] = 0 /\ ~writes[T]

\* One system released a two-element tuple and the other failed after its
\* first element borrow.
C6_Witness ==
    /\ Quiescent
    /\ \E s \in Systems : pc[s] = "released" /\ Len(query[s]) = 2
    /\ \E s \in Systems : pc[s] = "failed" /\ Len(held[s]) = 1

\* C8: a tuple's borrow() takes its elements' borrows in declaration order:
\* the borrows taken so far are the first elements of the tuple, so each
\* element is requested only after all elements before it were granted; the
\* store changes by one element at a time.
C8_DeclarationOrder ==
    \A s \in Systems :
        /\ pc[s] \in {"borrow", "failed"} =>
              /\ Len(held[s]) <= Len(query[s])
              /\ held[s] = SubSeq(query[s], 1, Len(held[s]))
        /\ InWindow(s) => held[s] = query[s]
        /\ (/\ pc[s] = "borrow"
            /\ query[s] = <<[kind |-> "Res", ty |-> "A"], [kind |-> "ResMut", ty |-> "B"]>>
            /\ Len(held[s]) = 1)
           => reads["A"] >= 1 /\ held[s][1].ty = "A"

\* (Res<A>, ResMut<B>) has taken the shared borrow of A and not yet the
\* exclusive borrow of B.
C8_Witness ==
    \E s \in Systems :
        /\ pc[s] = "borrow"
        /\ query[s] = <<[kind |-> "Res", ty |-> "A"], [kind |-> "ResMut", ty |-> "B"]>>
        /\ held[s] = <<[kind |-> "Res", ty |-> "A"]>>
        /\ reads["A"] = 1 /\ ~writes["B"]

\* The types a tuple declares to read and to write.
DeclaredRead(q) == {q[i].ty : i \in {j \in 1..Len(q) : q[j].kind = "Res"}}
DeclaredWrite(q) == {q[i].ty : i \in {j \in 1..Len(q) : q[j].kind \in {"ResMut", "Local"}}}

\* C9: access() of a fetch is the union of its elements' descriptors: Res<T>
\* puts T in the read-set only, ResMut<T> and Local<T> put T in the write-set
\* only, and the descriptor the scheduler was given is the same in every
\* store state.
C9_AccessIsUnion ==
    /\ \A q \in Queries :
          /\ tuple_access(q).immutable = DeclaredRead(q)
          /\ tuple_access(q).mutable = DeclaredWrite(q)
    /\ \A s \in Systems : pc[s] # "idle" =>
          /\ plan[s].immutable = DeclaredRead(query[s])
          /\ plan[s].mutable = DeclaredWrite(query[s])

\* The scheduler asked for the descriptor of (Res<A>, Local<B>) while the
\* other system held a borrow.
C9_Witness ==
    \E s, t \in Systems :
        /\ s # t /\ InWindow(t) /\ held[t] # <<>>
        /\ pc[s] = "borrow"
        /\ query[s] = <<[kind |-> "Res", ty |-> "A"], [kind |-> "Local", ty |-> "B"]>>
        /\ plan[s] = [immutable |-> {"A"}, mutable |-> {"B"}]

\* C7: while two systems both hold a shared borrow of T, every exclusive borrow
\* of T a third system attempts is refused; once no borrow of T is held any
\* more, an exclusive borrow of T is granted; and the value a shared borrower
\* reads is the last value written through an exclusive handle.
C7_ReadersThenWriter ==
    /\ [][\A s \in AllSystems :
            (BorrowAttempt(s) /\ Attempted(s).kind = "ResMut") =>
                LET T == Attempted(s).ty
                    Readers == {t \in AllSystems \ {s} :
                                   InWindow(t) /\ SharedHeld(t, T) > 0}
                IN  /\ Cardinality(Readers) >= 2 => ~Granted(s)
                    /\ (\A t \in AllSystems : held[t] = <<>>) => Granted(s)
         ]_vars
    /\ [](\A s \in AllSystems : \A i \in 1..Len(handles[s]) :
            handles[s][i].kind = "Res" =>
                Deref(slots, handles[s][i]) = lastWrite[handles[s][i].ty])

\* A third system's exclusive borrow was refused, and later a shared borrower
\* reads the value 1 that was written through an exclusive handle.
C7_Witness ==
    /\ \E s \in AllSystems : pc[s] = "failed" /\ failure[s] = "borrow"
    /\ \E s \in AllSystems :
          /\ pc[s] = "use" /\ handles[s] # <<>>
          /\ handles[s][1].kind = "Res"
          /\ Deref(slots, handles[s][1]) = 1
          /\ lastWrite[handles[s][1].ty] = 1

\* C10: the empty tuple () is a legal fetch: its access() is empty, and in every
\* store state its borrow(), release() and initialize() succeed and leave
\* every read count, every exclusive flag and every slot as it was; a system
\* running () changes nothing in the store and does not fail.
C10_EmptyTuple ==
    /\ [](/\ tuple_access(<<>>) = [immutable |-> {}, mutable |-> {}]
          /\ tuple_borrow(Lock, <<>>) = [ok |-> TRUE, lock |-> Lock]
          /\ tuple_release(Lock, <<>>) = Lock
          /\ \A sid \in SystemIds :
                /\ tuple_initialize(slots, sid, <<>>, <<>>).ok
                /\ tuple_initialize(slots, sid, <<>>, <<>>).slots = slots
                /\ tuple_get(slots, sid, <<>>).ok)
    /\ [][\A s \in Systems :
            (query[s] = <<>> /\ pc'[s] # pc[s]) =>
                /\ reads' = reads /\ writes' = writes /\ slots' = slots
                /\ pc'[s] # "failed"
                /\ setup' = "ok"
         ]_vars

\* A system has run () through borrow(), get() and release() while a read
\* count was non-zero and a private slot existed.
C10_Witness ==
    /\ \E s \in Systems : pc[s] = "released" /\ query[s] = <<>>
    /\ \E T \in Types : reads[T] > 0
    /\ \E s \in Systems : \E T \in Types : slots[System(s), T] # NoSlot

\* The handle get() of Local<T> returns to the system with this id.
LocalHandle(id, T) == [kind |-> "Local", index |-> System(id), ty |-> T]

LocalTypes(q) == {q[i].ty : i \in {j \in 1..Len(q) : q[j].kind = "Local"}}

\* C12: a private slot is created at most once per (system, type) pair and
\* before the system's first use: get() of Local<T> succeeds only when the
\* slot at System(id) exists, which only an initialize() of a tuple with a
\* Local<T> element creates, and get() creates no slot; initialize() of a
\* tuple, called while no system runs, creates the slot of every Local
\* element and no other slot; a slot that exists is never created again.
C12_SlotCreation ==
    /\ [](/\ \A id \in Systems : \A T \in Types :
                FetchResourceLocalMut_get(slots, id, T).ok
                    <=> slots[System(id), T] # NoSlot
          /\ \A s \in Systems : \A i \in 1..Len(handles[s]) :
                handles[s][i].kind = "Local" =>
                    /\ handles[s][i].index = System(s)
                    /\ slots[System(s), handles[s][i].ty] # NoSlot
          /\ Quiescent => \A id \in Systems : \A q \in Queries :
                \A vs \in [1..Len(q) -> Values] :
                    LET r == tuple_initialize(slots, id, q, vs)
                    IN  /\ r.ok
                        /\ \A T \in LocalTypes(q) : r.slots[System(id), T] # NoSlot
                        /\ \A x \in Indices : \A T \in Types :
                              (x # System(id) \/ T \notin LocalTypes(q)
                                  \/ slots[x, T] # NoSlot)
                                  => r.slots[x, T] = slots[x, T])
    /\ [][\A s \in AllSystems : \A T \in Types :
            /\ slots[System(s), T] # NoSlot => slots'[System(s), T] # NoSlot
            /\ (slots[System(s), T] = NoSlot /\ slots'[System(s), T] # NoSlot) =>
                  /\ Quiescent /\ pc' = pc /\ handles' = handles
                  /\ T \in LocalTypes(query'[s])
            /\ pc[s] = "get" => slots' = slots
         ]_vars

\* A system uses the Local handle get() returned for its own slot while the
\* other system has no slot of that type and the global resource exists.
C12_Witness ==
    \E s, t \in Systems :
        /\ pc[s] = "use"
        /\ \E i \in 1..Len(handles[s]) :
              handles[s][i] = LocalHandle(s, "A")
        /\ slots[System(s), "A"] # NoSlot
        /\ slots[System(t), "A"] = NoSlot
        /\ slots[Global, "A"] # NoSlot

\* C13 as stated: a borrow of Local<T> is granted whenever the only borrows
\* recorded on T are Local<T> borrows of other systems: two systems borrow
\* Local<T> of one type with overlapping windows and neither fails.
C13_Original ==
    [][\A s \in Systems :
          (BorrowAttempt(s) /\ Attempted(s).kind = "Local") =>
              LET T == Attempted(s).ty
              IN  (/\ \A i \in 1..Len(held[s]) : held[s][i].ty # T
                   /\ \A t \in Systems \ {s} : \A i \in 1..Len(held[t]) :
                         held[t][i].ty = T =>
                             held[t][i].kind = "Local" /\ InWindow(t))
                  => Granted(s)
      ]_vars

\* A system holds Local<A> alone in its tuple, inside its borrow window, and
\* the borrow() of the other system, whose tuple is Local<A> alone, panicked.
C13_Witness ==
    \E s, t \in Systems :
        /\ s # t /\ InWindow(t)
        /\ query[t] = <<[kind |-> "Local", ty |-> "A"]>>
        /\ query[s] = <<[kind |-> "Local", ty |-> "A"]>>
        /\ pc[s] = "failed" /\ failure[s] = "borrow" /\ held[s] = <<>>

\* C14: without a system id, get() and initialize() of Local<T> fail, alone
\* and as an element of a tuple, and the failed call leaves every slot, read
\* count and exclusive flag as it was; get() of Res<T> and of ResMut<T>
\* returns the same with every system id and with none.
C14_MissingSystemId ==
    /\ [](/\ \A T \in Types :
                /\ FetchResourceLocalMut_get(slots, None, T) = Failed("no system id")
                /\ \A v \in Values :
                      /\ ~Local_initialize(slots, None, T, v).ok
                      /\ Local_initialize(slots, None, T, v).slots = slots
                /\ \A sid \in SystemIds :
                      /\ FetchResourceRead_get(slots, sid, T)
                            = FetchResourceRead_get(slots, None, T)
                      /\ FetchResourceWrite_get(slots, sid, T)
                            = FetchResourceWrite_get(slots, None, T)
          /\ \A q \in Queries :
                IF LocalTypes(q) # {}
                THEN /\ ~tuple_get(slots, None, q).ok
                     /\ Quiescent => \A vs \in [1..Len(q) -> Values] :
                           /\ ~tuple_initialize(slots, None, q, vs).ok
                           /\ tuple_initialize(slots, None, q, vs).slots = slots
                ELSE \A sid \in SystemIds :
                           tuple_get(slots, sid, q) = tuple_get(slots, None, q))
    /\ [][/\ \A s \in Systems :
                (pc'[s] = "failed" /\ failure'[s] = "no system id"
                     /\ pc[s] # "failed") =>
                    /\ pc[s] = "get" /\ LocalTypes(query[s]) # {}
                    /\ reads' = reads /\ writes' = writes /\ slots' = slots
          /\ (setup = "ok" /\ setup' = "panicked") =>
                reads' = reads /\ writes' = writes /\ slots' = slots
         ]_vars

\* A get() without a system id failed for a system whose Local slot exists
\* and whose borrow is still recorded, and later an initialize() without a
\* system id panicked.
C14_Witness ==
    /\ setup = "panicked"
    /\ \E s \in Systems :
          /\ pc[s] = "failed" /\ failure[s] = "no system id"
          /\ slots[System(s), "A"] # NoSlot
          /\ held[s] # <<>> /\ writes["A"]

\* This step registers a global resource that was not registered.
CreatesGlobal == \E T \in Types : slots[Global, T] = NoSlot /\ slots'[Global, T] # NoSlot

\* C15: no operation of a fetch or a query creates a Global slot: a step that
\* registers a global resource is no borrow, release, get, unsafe_clone or
\* initialize, and initialize() of every tuple leaves the Global slots as
\* they are; get() of Res<T> and of ResMut<T> fails whenever T has no Global
\* slot, also for a system id that has a System(id) slot of T.
C15_MissingGlobal ==
    /\ [](/\ \A T \in Types : slots[Global, T] = NoSlot =>
                \A sid \in SystemIds :
                    /\ ~FetchResourceRead_get(slots, sid, T).ok
                    /\ ~FetchResourceWrite_get(slots, sid, T).ok
                    /\ \A q \in Queries :
                          (\E i \in 1..Len(q) :
                               q[i].ty = T /\ q[i].kind \in {"Res", "ResMut"})
                              => ~tuple_get(slots, sid, q).ok
          /\ \A s \in Systems : \A i \in 1..Len(handles[s]) :
                handles[s][i].kind \in {"Res", "ResMut"} =>
                    /\ handles[s][i].index = Global
                    /\ slots[Global, handles[s][i].ty] # NoSlot
          /\ Quiescent => \A sid \in SystemIds : \A q \in Queries :
                \A vs \in [1..Len(q) -> Values] :
                    LET r == tuple_initialize(slots, sid, q, vs)
                    IN  \A T \in Types : r.slots[Global, T] = slots[Global, T])
    /\ [][CreatesGlobal =>
            /\ UNCHANGED <<reads, writes, pc, held, handles, dups, failure, built, setup>>
            /\ \A s \in AllSystems : \A T \in Types :
                  slots'[System(s), T] = slots[System(s), T]
         ]_vars

\* While type A has no Global slot and a system has its System slot of A,
\* the get() of a system whose query reads or writes the global A failed.
C15_Witness ==
    \E s, t \in Systems :
        /\ slots[Global, "A"] = NoSlot
        /\ slots[System(s), "A"] # NoSlot /\ pc[s] = "released"
        /\ pc[t] = "failed" /\ failure[t] = "missing resource"
        /\ query[t] # <<>> /\ query[t][1].kind \in {"Res", "ResMut"}

\* C16: no operation waits: a system that is executing a run can always make
\* its next call, which completes or fails in that step, also when its next
\* borrow is held by a system whose next borrow it holds itself; so every
\* system that starts a run reaches "released" or "failed".
C16_NoWaiting ==
    /\ [](\A s \in Systems : Running(s) => ENABLED SystemStep(s))
    /\ \A s \in Systems :
          (pc[s] = "borrow") ~> (pc[s] \in {"released", "failed"})

\* Each of two systems holds the exclusive borrow the other requests next:
\* their tuples name the same two types in opposite declaration orders.
C16_Witness ==
    \E s, t \in Systems :
        /\ s # t /\ pc[s] = "borrow" /\ pc[t] = "borrow"
        /\ Len(held[s]) = 1 /\ Len(held[t]) = 1
        /\ Len(query[s]) = 2 /\ Len(query[t]) = 2
        /\ ElemConflict(query[s][2], held[t][1])
        /\ ElemConflict(query[t][2], held[s][1])
        /\ held[s][1].ty # held[t][1].ty

\* Two handles address the same slot.
SameSlot(h, g) == h.index = g.index /\ h.ty = g.ty

\* C17: unsafe_clone() of a Res, ResMut or Local handle, and of a tuple of
\* them element by element, returns handles of the same kinds that address
\* the same slots as the originals, at the same positions; it is available
\* whatever the borrow state is, and it leaves every read count, every
\* exclusive flag and every slot unchanged.
C17_UnsafeClone ==
    /\ [](\A s \in Systems :
            /\ \A i \in 1..Len(handles[s]) :
                  LET h == handles[s][i]
                      c == tuple_unsafe_clone(handles[s])[i]
                  IN  /\ Len(tuple_unsafe_clone(handles[s])) = Len(handles[s])
                      /\ SameSlot(c, h) /\ c.kind = h.kind
                      /\ Deref(slots, c) = Deref(slots, h)
            /\ dups[s] # <<>> =>
                  /\ Len(dups[s]) = Len(handles[s])
                  /\ \A i \in 1..Len(dups[s]) :
                        /\ SameSlot(dups[s][i], handles[s][i])
                        /\ dups[s][i].kind = query[s][i].kind
            /\ pc[s] = "use" => ENABLED Clone(s))
    /\ [][\A s \in Systems : (dups'[s] # dups[s] /\ dups'[s] # <<>>) =>
            reads' = reads /\ writes' = writes /\ slots' = slots
         ]_vars

\* A system duplicated the Item of (Res<A>, Local<B>) while the other system
\* also holds a shared borrow of A.
C17_Witness ==
    \E s, t \in Systems :
        /\ s # t /\ pc[s] = "use" /\ InWindow(t)
        /\ query[s] = <<[kind |-> "Res", ty |-> "A"], [kind |-> "Local", ty |-> "B"]>>
        /\ Len(dups[s]) = 2
        /\ dups[s][2] = LocalHandle(s, "B")
        /\ reads["A"] = 2 /\ writes["B"]

\* C18: get() hands out handles only inside a borrow window: whenever a
\* system holds a handle for type T, it is between the return of its
\* successful borrow() and its release(), the borrow of the same element is
\* recorded for it and shows in the store (a read count of at least one for
\* Res<T>, the exclusive flag for ResMut<T> and Local<T>); and get() changes
\* no read count and no exclusive flag, whether it returns or fails.
C18_GetInsideWindow ==
    /\ [](\A s \in Systems :
            /\ handles[s] # <<>> => pc[s] = "use" /\ held[s] = query[s]
            /\ Len(handles[s]) \in {0, Len(query[s])}
            /\ \A i \in 1..Len(handles[s]) :
                  LET h == handles[s][i]
                  IN  /\ h.kind = held[s][i].kind /\ h.ty = held[s][i].ty
                      /\ h.kind = "Res" => reads[h.ty] >= 1 /\ ~writes[h.ty]
                      /\ h.kind \in {"ResMut", "Local"} =>
                            writes[h.ty] /\ reads[h.ty] = 0)
    /\ [][\A s \in Systems : (pc[s] = "get" /\ pc'[s] # "get") =>
            reads' = reads /\ writes' = writes /\ held' = held
         ]_vars

\* Both systems hold handles at once: one for (Res<T>, ResMut<U>), the other
\* for Res<T>, with two shared borrows of T and the exclusive borrow of U
\* recorded.
C18_Witness ==
    \E s, t \in Systems :
        /\ s # t /\ pc[s] = "use" /\ pc[t] = "use"
        /\ Len(handles[s]) = 2
        /\ handles[s][1].kind = "Res" /\ handles[s][2].kind = "ResMut"
        /\ Len(handles[t]) = 1 /\ handles[t][1].kind = "Res"
        /\ handles[t][1].ty = handles[s][1].ty
        /\ reads[handles[s][1].ty] = 2 /\ writes[handles[s][2].ty]

\* The private slots this step creates.
SlotsCreated ==
    {x \in AllSystems \X Types :
        slots[System(x[1]), x[2]] = NoSlot /\ slots'[System(x[1]), x[2]] # NoSlot}

\* C19 as stated: Local<T>::initialize calls from_resources only when no value
\* exists yet at System(id) for T: every call of from_resources comes with the
\* creation of a slot, and a call of initialize() made when the slot exists,
\* or without a system id, constructs nothing.
C19_Original ==
    [][built' - built = Cardinality(SlotsCreated)]_vars

\* One system alone is registered with Local<A>, initialize() has returned
\* twice for it, and from_resources has been called twice.
C19_Witness ==
    \E s \in Systems :
        /\ setup = "ok" /\ built = 2
        /\ query[s] = <<[kind |-> "Local", ty |-> "A"]>>
        /\ slots[System(s), "A"] # NoSlot
        /\ \A t \in Systems \ {s} : LocalTypes(query[t]) = {}

\* The position of the element at which borrow() of q panics in the store
\* state L, counted from n + 1; 0 when every element borrow is granted.
RECURSIVE FailIndex(_, _, _)
FailIndex(L, q, n) ==
    IF q = <<>> THEN 0
    ELSE LET r == Fetch_borrow(L, Head(q))
         IN  IF r.ok THEN FailIndex(r.lock, Tail(q), n + 1) ELSE n + 1

\* The shared element borrows recorded for the systems 1..n on type T.
RECURSIVE SharedHeldUpTo(_, _)
SharedHeldUpTo(T, n) ==
    IF n = 0 THEN 0 ELSE SharedHeld(n, T) + SharedHeldUpTo(T, n - 1)

\* C20: a tuple's borrow() has no rollback: when the borrow of element k is
\* refused, the borrows taken for the elements 1..k-1 stay recorded, the
\* read counts and flags keep what those elements set, and no element after
\* k is ever requested; the store the failed call leaves is the store after
\* the borrows of the first k-1 elements, which differs from the store the
\* call started in whenever k > 1.
C20_NoRollback ==
    /\ [](/\ \A q \in Queries :
                LET k == FailIndex(Lock, q, 0)
                    r == tuple_borrow(Lock, q)
                IN  k > 0 =>
                      /\ ~r.ok
                      /\ tuple_borrow(Lock, SubSeq(q, 1, k - 1)).ok
                      /\ r.lock = tuple_borrow(Lock, SubSeq(q, 1, k - 1)).lock
                      /\ k > 1 => r.lock # Lock
          /\ \A T \in Types :
                /\ reads[T] = SharedHeldUpTo(T, NumSystems + 1)
                /\ writes[T] <=> ExclusiveOutstanding(T)
          /\ \A s \in Systems : (pc[s] = "failed" /\ failure[s] = "borrow") =>
                /\ Len(held[s]) < Len(query[s])
                /\ held[s] = SubSeq(query[s], 1, Len(held[s])))
    /\ [][\A s \in Systems :
            /\ BorrowRefused(s) =>
                  held'[s] = held[s] /\ reads' = reads /\ writes' = writes
            /\ pc[s] = "failed" => pc'[s] = "failed" /\ held'[s] = held[s]
         ]_vars

\* The borrow() of (ResMut<A>, ResMut<B>) was refused at its second element:
\* the exclusive borrow of A stays recorded after the other system, which
\* held B, has released.
C20_Witness ==
    \E s, t \in Systems :
        /\ s # t /\ pc[s] = "failed" /\ failure[s] = "borrow"
        /\ query[s] = <<[kind |-> "ResMut", ty |-> "A"], [kind |-> "ResMut", ty |-> "B"]>>
        /\ held[s] = <<[kind |-> "ResMut", ty |-> "A"]>>
        /\ pc[t] = "released" /\ held[t] = <<>>
        /\ writes["A"] /\ ~writes["B"]

====
